---- MODULE Spec2Model ----
(***************************************************************************)
(* Client-side task event streaming and reconnection engine of             *)
(* static/main.js: createTask, setupSSE/connect and its listeners,         *)
(* eventSource.onerror, updateTaskStatus, cancelTask, cancelCurrentTask.   *)
(* The browser (EventSource, timers, fetch) and the remote task service    *)
(* are the environment.                                                    *)
(***************************************************************************)
EXTENDS Naturals, Sequences, FiniteSets, Bags, TLC

\* ------------------------------------------------------------------ bounds
MaxTasks  == 2      \* createTask submissions of a run with several tasks
MaxFrames == 2      \* pushed frames delivered in a run
MaxTicks  == 1      \* heartbeat ticks rendered in a run
MaxPolls  == 2      \* status polls in flight at once
MaxCancels == 1     \* cancel requests sent in a run
MaxErrors == 1      \* transport errors in a run with several tasks or cancels
MaxPosts  == 2      \* respond requests the user sends in a run
MaxTyped  == 2      \* tokens typed into the textarea of a prompt
MaxContent == 4     \* tokens of the text of a pushed frame

\* ------------------------------------------------------- program constants
maxRetries == 3

\* EventSource.readyState
CONNECTING == 0
OPEN == 1
CLOSED == 2

\* the page has the elements main.js looks up by id (status-bar,
\* cancel-task-btn, task-container, prompt-input)
StatusBarPresent == TRUE

Status == {"pending", "running", "completed", "failed", "cancelled"}
TerminalStatus == {"completed", "failed", "cancelled"}
eventTypes == {"think", "tool", "act", "log", "run", "message"}
TerminalFrames == {"complete", "error", "cancelled"}
\* event.data: parses to an object with the expected fields / is not JSON /
\* parses to null (reading a field of it throws)
Payloads == {"ok", "unparseable", "null"}

VARIABLES
    currentEventSource,   \* 0 (null) or the index in channels of the EventSource
    currentTaskId,        \* 0 (null) or a task id
    cancelBtn,            \* cancel-task-btn is displayed
    statusBar,            \* text of the status bar
    container,            \* children of task-container, in document order
    steps,                \* children of its .step-container, in order
    alertMsg,             \* text of the last alert() shown
    channels,             \* every EventSource created so far
    retryCount,           \* retryCount of each setupSSE closure, by task id
    timers,               \* pending setTimeout(connect) of each closure
    polls,                \* GET /tasks/{id} requests in flight (a bag)
    createPending,        \* POST /tasks requests in flight
    cancelPending,        \* POST /tasks/{id}/cancel requests in flight (task ids)
    historyPending,       \* GET /tasks requests in flight
    cards,                \* task ids that have a card in task-list
    serverStatus,         \* the service's status of each task, by task id
    modals,               \* elements with id ask-human-modal in document.body
    escapeHandlers,       \* keydown listeners showAskHumanModal put on document
    respondPending,       \* POST /tasks/{id}/respond requests in flight (a bag)
    closeTimers,          \* pending setTimeout(closeAskHumanModal, 1500)
    removeTimers,         \* modals a pending setTimeout(modal.remove, 300) holds
    budget                \* what the environment may still do in this run

vars == <<currentEventSource, currentTaskId, cancelBtn, statusBar, container,
          steps, alertMsg, channels, retryCount, timers, polls, createPending,
          cancelPending, historyPending, cards, serverStatus,
          modals, escapeHandlers, respondPending, closeTimers, removeTimers,
          budget>>

\* the state of the ask_human handshake
humanVars == <<modals, escapeHandlers, respondPending, closeTimers, removeTimers>>

\* ------------------------------------------------------------- render items
Item(kind, task, n) == [kind |-> kind, task |-> task, n |-> n]
Loading == Item("loading", 0, 0)
StepContainer == Item("step-container", 0, 0)
Step(type, task) == [type |-> type, task |-> task, text |-> "result"]

Tasks == 1..Len(serverStatus)
Spend(what) == [budget EXCEPT ![what] = @ - 1]
Chans == 1..Len(channels)

\* new EventSource(`/tasks/${taskId}/events`) with its heartbeat interval armed;
\* terminal records the terminal frame delivered on it, closeCalls the calls
\* of close() on it
NewChannel(task) ==
    [task |-> task, readyState |-> CONNECTING, heartbeat |-> TRUE,
     terminal |-> "none", closeCalls |-> 0]

\* EventSource.close()
CloseChannel(chs, c) ==
    [chs EXCEPT ![c] = [@ EXCEPT !.readyState = CLOSED,
                                 !.closeCalls = @ + 1]]

\* clearInterval(heartbeatTimer)
ClearHeartbeat(chs, c) == [chs EXCEPT ![c] = [@ EXCEPT !.heartbeat = FALSE]]

\* fetch(`/tasks/${taskId}`)
Poll(task, kind) == [task |-> task, kind |-> kind, ans |-> "none"]
SendPoll(ps, task, kind) == ps (+) SetToBag({Poll(task, kind)})

\* connect() up to its listeners: the new EventSource becomes
\* currentEventSource and the initial poll is sent
connect(t, chs, ps) ==
    [chs |-> Append(chs, NewChannel(t)), ces |-> Len(chs) + 1,
     polls |-> SendPoll(ps, t, "status")]

StatusText(status) ==
    CASE status = "completed" -> "Task completed"
      [] status = "cancelled" -> "Task cancelled"
      [] status = "failed"    -> "Task failed"
      [] status = "running"   -> "Task running: running"
      [] OTHER                -> "Task running: pending"

\* a status bar that keeps a terminal text once it shows one
statusBarSticky(bar, status) ==
    IF bar \in {StatusText(st) : st \in TerminalStatus} THEN bar
    ELSE StatusText(status)

\* statusBar.innerHTML = ... of each branch of updateTaskStatus: the text of
\* task.status, whatever the bar showed
statusBarAfter(bar, status) == StatusText(status)

\* an updateTaskStatus that leaves the channel alone on a terminal status
updateTaskStatusNoClose(status, bar, btn, ces, chs) ==
    [bar |-> StatusText(status),
     btn |-> IF status \in TerminalStatus THEN FALSE
             ELSE IF status = "running" THEN TRUE ELSE btn,
     ces |-> ces, chs |-> chs]

\* updateTaskStatus(task): the status bar, the cancel button, the global
\* currentEventSource and the channel it refers to, after the call
updateTaskStatus(status, bar, btn, ces, chs) ==
    IF ~StatusBarPresent
    THEN [bar |-> bar, btn |-> btn, ces |-> ces, chs |-> chs]
    ELSE IF status \in {"completed", "cancelled", "failed"}
    THEN [bar |-> statusBarAfter(bar, status), btn |-> FALSE, ces |-> 0,
          chs |-> IF ces # 0 THEN CloseChannel(chs, ces) ELSE chs]
    ELSE IF status = "running"
    THEN [bar |-> statusBarAfter(bar, status), btn |-> TRUE, ces |-> ces, chs |-> chs]
    ELSE [bar |-> statusBarAfter(bar, status), btn |-> btn, ces |-> ces, chs |-> chs]

\* container.querySelector('.loading')?.remove()
RemoveLoading(cont) == SelectSeq(cont, LAMBDA i : i.kind # "loading")

HasStepContainer(cont) == \E i \in 1..Len(cont) : cont[i] = StepContainer

\* ensureStepContainer(container): the container and the steps afterwards
ensureStepContainer(cont, st) ==
    IF HasStepContainer(cont)
    THEN [cont |-> cont, steps |-> st]
    ELSE [cont |-> <<StepContainer>>, steps |-> <<>>]

\* an off-by-one retry guard
CanRetryInclusive(rc) == rc <= maxRetries

\* retry guard of eventSource.onerror
CanRetry(rc) == rc < maxRetries

\* a retry that counts twice
IncrementedTwice(rc) == rc + 2

\* a retry that is not counted
IncrementedNever(rc) == rc

\* retryCount++
Incremented(rc) == rc + 1

\* a connect() that starts its retry budget afresh
retryCountResetByConnect(rc, t) == [rc EXCEPT ![t] = 0]

\* retryCount is a variable of setupSSE, not of connect(): connect() leaves
\* it as it is
retryCountAfterConnect(rc, t) == rc

\* the statuses eventSource.onerror treats as finished after its poll
OnErrorFinished(status) == status = "completed" \/ status = "failed"

\* the state after DOMContentLoaded (loadHistory() is in flight), with the
\* environment's budget b for the run
InitWith(b) ==
    /\ currentEventSource = 0
    /\ currentTaskId = 0
    /\ cancelBtn = FALSE
    /\ statusBar = ""
    /\ container = <<>>
    /\ steps = <<>>
    /\ alertMsg = ""
    /\ channels = <<>>
    /\ retryCount = <<>>
    /\ timers = <<>>
    /\ polls = EmptyBag
    /\ createPending = 0
    /\ cancelPending = EmptyBag
    /\ historyPending = 1
    /\ cards = {}
    /\ serverStatus = <<>>
    /\ modals = <<>>
    /\ escapeHandlers = <<>>
    /\ respondPending = EmptyBag
    /\ closeTimers = 0
    /\ removeTimers = {}
    /\ budget = b

\* ------------------------------------------------------------ createTask
createTask(prompt) ==
    IF prompt = ""
    THEN /\ alertMsg' = "Please enter a valid prompt"
         /\ UNCHANGED humanVars
         /\ UNCHANGED <<currentEventSource, currentTaskId, cancelBtn, statusBar,
                        container, steps, channels, retryCount, timers, polls,
                        createPending, cancelPending, historyPending, cards,
                        serverStatus, budget>>
    ELSE /\ budget.tasks > 0
         /\ budget' = Spend("tasks")
         /\ channels' = IF currentEventSource # 0
                        THEN CloseChannel(channels, currentEventSource)
                        ELSE channels
         /\ currentEventSource' = 0
         /\ container' = <<Loading>>
         /\ steps' = <<>>
         /\ cancelBtn' = TRUE
         /\ createPending' = createPending + 1
         /\ UNCHANGED humanVars
         /\ UNCHANGED <<currentTaskId, statusBar, alertMsg, retryCount, timers,
                        polls, cancelPending, historyPending, cards,
                        serverStatus>>

\* POST /tasks answered with a task_id: setupSSE(task_id), connect(), loadHistory()
createTaskOk ==
    /\ createPending > 0
    /\ BagCardinality(polls) < MaxPolls
    /\ LET t == Len(serverStatus) + 1
           k == connect(t, channels, polls)
       IN /\ serverStatus' = Append(serverStatus, "pending")
          /\ currentTaskId' = t
          /\ retryCount' = Append(retryCount, 0)
          /\ timers' = Append(timers, 0)
          /\ channels' = k.chs
          /\ currentEventSource' = k.ces
          /\ polls' = k.polls
    /\ createPending' = createPending - 1
    /\ historyPending' = historyPending + 1
    /\ UNCHANGED humanVars
    /\ UNCHANGED <<cancelBtn, statusBar, container, steps, alertMsg,
                   cancelPending, cards, budget>>

\* POST /tasks failed, was rejected, or carried no task_id
createTaskFailed ==
    /\ createPending > 0
    /\ createPending' = createPending - 1
    /\ container' = <<Item("create-error", 0, 0)>>
    /\ steps' = <<>>
    /\ cancelBtn' = FALSE
    /\ UNCHANGED humanVars
    /\ UNCHANGED <<currentEventSource, currentTaskId, statusBar, alertMsg,
                   channels, retryCount, timers, polls, cancelPending,
                   historyPending, cards, serverStatus, budget>>

\* the retry timer of task t's closure fires: connect()
RetryTimerFires(t) ==
    /\ timers[t] > 0
    /\ BagCardinality(polls) < MaxPolls
    /\ timers' = [timers EXCEPT ![t] = @ - 1]
    /\ LET k == connect(t, channels, polls)
       IN /\ channels' = k.chs
          /\ currentEventSource' = k.ces
          /\ polls' = k.polls
    /\ retryCount' = retryCountAfterConnect(retryCount, t)
    /\ UNCHANGED humanVars
    /\ UNCHANGED <<currentTaskId, cancelBtn, statusBar, container, steps,
                   alertMsg, createPending, cancelPending,
                   historyPending, cards, serverStatus, budget>>

\* the heartbeat interval fires
HeartbeatTick(c) ==
    /\ channels[c].heartbeat
    /\ budget.ticks > 0
    /\ budget' = Spend("ticks")
    /\ container' = Append(container, Item("ping", channels[c].task, 0))
    /\ UNCHANGED humanVars
    /\ UNCHANGED <<currentEventSource, currentTaskId, cancelBtn, statusBar,
                   steps, alertMsg, channels, retryCount, timers, polls,
                   createPending, cancelPending, historyPending, cards,
                   serverStatus>>

\* ------------------------------------------------------- pushed frames
\* the browser delivers a frame on c: the source is not CLOSED, and is OPEN
\* from its first frame on
Delivered(chs, c) == [chs EXCEPT ![c].readyState = OPEN]

\* handleEvent(event, type) for the six eventTypes
handleEvent(c, type, payload) ==
    LET t == channels[c].task
        cleaned == RemoveLoading(container)
        e == ensureStepContainer(cleaned, steps)
    IN
    /\ channels[c].readyState # CLOSED
    /\ budget.frames > 0
    /\ BagCardinality(polls) < MaxPolls
    /\ budget' = Spend("frames")
    /\ channels' = ClearHeartbeat(Delivered(channels, c), c)
    /\ CASE payload = "ok" ->
                /\ container' = e.cont
                /\ steps' = Append(e.steps, Step(type, t))
                /\ polls' = SendPoll(polls, t, "status")
         [] payload = "null" ->
                \* formatStepContent throws after ensureStepContainer
                /\ container' = e.cont
                /\ steps' = e.steps
                /\ polls' = polls
         [] OTHER ->
                \* JSON.parse throws
                /\ UNCHANGED <<container, steps, polls>>
    /\ UNCHANGED humanVars
    /\ UNCHANGED <<currentEventSource, currentTaskId, cancelBtn, statusBar,
                   alertMsg, retryCount, timers, createPending, cancelPending,
                   historyPending, cards, serverStatus>>

\* the block a complete / cancelled listener appends to the container
TerminalBlock(type, t) == Item(type, t, 0)

\* a terminal listener that forgets eventSource.close()
TerminalNoClose(chs, c) == ClearHeartbeat(chs, c)

\* clearInterval(heartbeatTimer) ... eventSource.close() of a terminal listener
TerminalClose(chs, c) == CloseChannel(ClearHeartbeat(chs, c), c)

\* listener of 'complete' (type = "complete") and of 'cancelled'
completeOrCancelled(c, type, payload) ==
    LET t == channels[c].task
        got == Delivered(channels, c)
    IN
    /\ channels[c].readyState # CLOSED
    /\ serverStatus[t] = (IF type = "complete" THEN "completed" ELSE "cancelled")
    /\ budget.frames > 0
    /\ BagCardinality(polls) < MaxPolls
    /\ budget' = Spend("frames")
    /\ IF payload = "ok"
       THEN /\ container' = Append(container, TerminalBlock(type, t))
            /\ cancelBtn' = FALSE
            /\ polls' = SendPoll(polls, t, "status")
            /\ channels' = [TerminalClose(got, c) EXCEPT ![c].terminal = "ok"]
            /\ currentEventSource' = 0
            /\ currentTaskId' = 0
       ELSE /\ channels' = [ClearHeartbeat(got, c) EXCEPT ![c].terminal = "bad"]
            /\ UNCHANGED <<container, cancelBtn, polls, currentEventSource,
                           currentTaskId>>
    /\ UNCHANGED humanVars
    /\ UNCHANGED <<statusBar, steps, alertMsg, retryCount, timers,
                   createPending, cancelPending, historyPending, cards,
                   serverStatus>>

\* an onerror that polls and retries without closing the failed source
onerrorNoClose(c, chs, ps) ==
    IF chs[c].readyState = CLOSED
    THEN [chs |-> chs, polls |-> ps]
    ELSE [chs |-> ClearHeartbeat(chs, c),
          polls |-> SendPoll(ps, chs[c].task, "onerror")]

\* eventSource.onerror after the 'error' listener ran: chs is the channels
\* the listener left. CLOSED: return. Otherwise close and poll.
onerror(c, chs, ps) ==
    IF chs[c].readyState = CLOSED
    THEN [chs |-> chs, polls |-> ps]
    ELSE [chs |-> CloseChannel(ClearHeartbeat(chs, c), c),
          polls |-> SendPoll(ps, chs[c].task, "onerror")]

\* a pushed frame named 'error': the 'error' listener, then eventSource.onerror
errorFrame(c, payload) ==
    LET t == channels[c].task
        got == Delivered(channels, c)
    IN
    /\ channels[c].readyState # CLOSED
    /\ serverStatus[t] = "failed"
    /\ budget.frames > 0
    /\ BagCardinality(polls) < MaxPolls
    /\ budget' = Spend("frames")
    /\ IF payload = "ok"
       THEN LET closed == [TerminalClose(got, c) EXCEPT ![c].terminal = "ok"]
                after == onerror(c, closed, polls)
            IN /\ container' = Append(container, Item("error", t, 0))
               /\ cancelBtn' = FALSE
               /\ channels' = after.chs
               /\ polls' = after.polls
               /\ currentEventSource' = 0
               /\ currentTaskId' = 0
       ELSE LET after == onerror(c, [ClearHeartbeat(got, c)
                                        EXCEPT ![c].terminal = "bad"], polls)
            IN /\ channels' = after.chs
               /\ polls' = after.polls
               /\ UNCHANGED <<container, cancelBtn, currentEventSource,
                              currentTaskId>>
    /\ UNCHANGED humanVars
    /\ UNCHANGED <<statusBar, steps, alertMsg, retryCount, timers,
                   createPending, cancelPending, historyPending, cards,
                   serverStatus>>

\* an 'error' listener that renders its block for an event without data
errorListenerRenders(cont, t) == Append(cont, Item("error", t, 0))

\* the 'error' listener on an event without data: JSON.parse(undefined)
\* throws before anything is rendered, the catch logs
errorListenerNoData(cont, t) == cont

\* a transport-level error event (no data): the browser leaves the source
\* CONNECTING (it would reconnect) or CLOSED (fatal); the 'error' listener
\* clears the heartbeat and throws in JSON.parse; then eventSource.onerror
TransportError(c, fatal) ==
    /\ channels[c].readyState # CLOSED
    /\ budget.errors > 0
    /\ BagCardinality(polls) < MaxPolls
    /\ budget' = Spend("errors")
    /\ LET browser == [channels EXCEPT ![c].readyState =
                            IF fatal THEN CLOSED ELSE CONNECTING]
           after == onerror(c, ClearHeartbeat(browser, c), polls)
       IN /\ channels' = after.chs
          /\ polls' = after.polls
    /\ container' = errorListenerNoData(container, channels[c].task)
    /\ UNCHANGED humanVars
    /\ UNCHANGED <<currentEventSource, currentTaskId, cancelBtn, statusBar,
                   steps, alertMsg, retryCount, timers,
                   createPending, cancelPending, historyPending, cards,
                   serverStatus>>

\* ----------------------------------------------------------- status polls
\* the service reads the task's status for a poll whose response is still
\* to travel back
ServerAnswersPoll(p) ==
    /\ BagIn(p, polls)
    /\ p.ans = "none"
    /\ polls' = (polls (-) SetToBag({p}))
                   (+) SetToBag({[p EXCEPT !.ans = serverStatus[p.task]]})
    /\ UNCHANGED humanVars
    /\ UNCHANGED <<currentEventSource, currentTaskId, cancelBtn, statusBar,
                   container, steps, alertMsg, channels, retryCount, timers,
                   createPending, cancelPending, historyPending, cards,
                   serverStatus, budget>>

\* the status a poll's response carries: the one the service read for it, or
\* the current one when it is read as the response leaves
Answer(p) == IF p.ans = "none" THEN serverStatus[p.task] ELSE p.ans

\* .then(task => updateTaskStatus(task)) of the initial, per-frame and final polls
StatusPollResponse(p) ==
    /\ BagIn(p, polls)
    /\ p.kind = "status"
    /\ polls' = polls (-) SetToBag({p})
    /\ LET u == updateTaskStatus(Answer(p), statusBar, cancelBtn,
                                 currentEventSource, channels)
       IN /\ statusBar' = u.bar
          /\ cancelBtn' = u.btn
          /\ currentEventSource' = u.ces
          /\ channels' = u.chs
    /\ UNCHANGED humanVars
    /\ UNCHANGED <<currentTaskId, container, steps, alertMsg, retryCount,
                   timers, createPending, cancelPending, historyPending, cards,
                   serverStatus, budget>>

\* .then(task => ...) of the poll eventSource.onerror made
OnErrorPollResponse(p) ==
    LET t == p.task
        status == Answer(p)
    IN
    /\ BagIn(p, polls)
    /\ p.kind = "onerror"
    /\ polls' = polls (-) SetToBag({p})
    /\ IF OnErrorFinished(status)
       THEN LET u == updateTaskStatus(status, statusBar, cancelBtn,
                                      currentEventSource, channels)
            IN /\ statusBar' = u.bar
               /\ cancelBtn' = u.btn
               /\ currentEventSource' = u.ces
               /\ channels' = u.chs
               /\ container' = Append(container,
                      IF status = "completed" THEN Item("complete", t, 0)
                                              ELSE Item("error", t, 0))
               /\ UNCHANGED <<retryCount, timers>>
       ELSE IF CanRetry(retryCount[t])
       THEN /\ retryCount' = [retryCount EXCEPT ![t] = Incremented(@)]
            /\ container' = Append(container,
                                   Item("warning", t, Incremented(retryCount[t])))
            /\ timers' = [timers EXCEPT ![t] = @ + 1]
            /\ UNCHANGED <<statusBar, cancelBtn, currentEventSource, channels>>
       ELSE /\ container' = Append(container, Item("lost", t, 0))
            /\ UNCHANGED <<statusBar, cancelBtn, currentEventSource, channels,
                           retryCount, timers>>
    /\ UNCHANGED humanVars
    /\ UNCHANGED <<currentTaskId, steps, alertMsg, createPending, cancelPending,
                   historyPending, cards, serverStatus, budget>>

\* a .catch that retries whichever poll failed
RetriesOnAnyFailure(p) == TRUE

\* the .catch of the poll of eventSource.onerror retries; those of the
\* initial, per-frame and final polls only log
RetriesOnFailure(p) == p.kind = "onerror"

\* a poll fails (network error, or a body that is not JSON): the .catch
PollFails(p) ==
    LET t == p.task IN
    /\ BagIn(p, polls)
    /\ p.kind \in {"status", "onerror"}
    /\ polls' = polls (-) SetToBag({p})
    /\ IF RetriesOnFailure(p) /\ CanRetry(retryCount[t])
       THEN /\ retryCount' = [retryCount EXCEPT ![t] = Incremented(@)]
            /\ timers' = [timers EXCEPT ![t] = @ + 1]
       ELSE UNCHANGED <<retryCount, timers>>
    /\ UNCHANGED humanVars
    /\ UNCHANGED <<currentEventSource, currentTaskId, cancelBtn, statusBar,
                   container, steps, alertMsg, channels, createPending,
                   cancelPending, historyPending, cards, serverStatus, budget>>

\* ------------------------------------------------ frames without a listener
\* event names the service may push for which connect() registers no listener
UnknownNames == {"status", "progress"}

\* icons[eventType] || fallback, and labels[eventType] || 'Info'
getEventLabel(eventType) ==
    CASE eventType = "think" -> "Thinking"
      [] eventType = "tool" -> "Using Tool"
      [] eventType = "act" -> "Action"
      [] eventType = "result" -> "Result"
      [] eventType = "error" -> "Error"
      [] eventType = "complete" -> "Complete"
      [] eventType = "log" -> "Log"
      [] eventType = "run" -> "Running"
      [] eventType = "ask_human" -> "Question for User"
      [] OTHER -> "Info"

\* a frame named name arrives on c: the source dispatches it to the listeners
\* of that name, and there is none (and no onmessage)
unknownFrame(c, name) ==
    /\ channels[c].readyState # CLOSED
    /\ budget.frames > 0
    /\ budget' = Spend("frames")
    /\ channels' = Delivered(channels, c)
    /\ UNCHANGED humanVars
    /\ UNCHANGED <<currentEventSource, currentTaskId, cancelBtn, statusBar,
                   container, steps, alertMsg, retryCount, timers, polls,
                   createPending, cancelPending, historyPending, cards,
                   serverStatus>>

\* ------------------------------------------------------------ task details
\* a task card of the history list is clicked: showTaskDetails(taskId)
showTaskDetails(t) ==
    /\ t \in cards
    /\ BagCardinality(polls) < MaxPolls
    /\ polls' = SendPoll(polls, t, "details")
    /\ UNCHANGED humanVars
    /\ UNCHANGED <<currentEventSource, currentTaskId, cancelBtn, statusBar,
                   container, steps, alertMsg, channels, retryCount, timers,
                   createPending, cancelPending, historyPending, cards,
                   serverStatus, budget>>

\* its GET /tasks/{id} is answered: container.innerHTML is the details block,
\* or the error block
showTaskDetailsResponse(p, ok) ==
    /\ BagIn(p, polls)
    /\ p.kind = "details"
    /\ polls' = polls (-) SetToBag({p})
    /\ container' = IF ok THEN <<Item("task-details", p.task, 0)>>
                          ELSE <<Item("details-error", 0, 0)>>
    /\ steps' = <<>>
    /\ UNCHANGED humanVars
    /\ UNCHANGED <<currentEventSource, currentTaskId, cancelBtn, statusBar,
                   alertMsg, channels, retryCount, timers, createPending,
                   cancelPending, historyPending, cards, serverStatus, budget>>

\* ------------------------------------------------------ createStepElement
\* String.prototype.trim(); " " is whitespace
RECURSIVE TrimLeft(_)
TrimLeft(s) == IF s # <<>> /\ Head(s) = " " THEN TrimLeft(Tail(s)) ELSE s
RECURSIVE TrimRight(_)
TrimRight(s) ==
    IF s # <<>> /\ s[Len(s)] = " " THEN TrimRight(SubSeq(s, 1, Len(s) - 1)) ELSE s
Trim(s) == TrimRight(TrimLeft(s))

\* the text of a frame (data.result) is a sequence of tokens: the two
\* patterns createStepElement looks for, separators, and words
ContentTokens ==
    {"Content successfully saved to ", "Executing step 1/5", " ", "/", ".",
     "png", "JPG", "mp3", "py", "txt"}
Contents == UNION {[1..n -> ContentTokens] : n \in 0..MaxContent}

\* the first index of tok in s, or 0
IndexOf(s, tok) ==
    IF \E i \in 1..Len(s) : s[i] = tok
    THEN CHOOSE i \in 1..Len(s) :
            s[i] = tok /\ \A j \in 1..(i - 1) : s[j] # tok
    ELSE 0

\* content.match(/Content successfully saved to (.+)/): match[1], or <<>>
\* when there is no match (nothing follows the pattern)
saveMatch(content) ==
    LET i == IndexOf(content, "Content successfully saved to ")
    IN IF i = 0 \/ i = Len(content) THEN <<>>
       ELSE SubSeq(content, i + 1, Len(content))

\* s.split(sep).pop(): what follows the last sep, all of s when it has none
RECURSIVE splitPop(_, _)
splitPop(s, sep) ==
    IF s = <<>> \/ s[Len(s)] = sep THEN <<>>
    ELSE Append(splitPop(SubSeq(s, 1, Len(s) - 1), sep), s[Len(s)])

\* String.prototype.toLowerCase()
toLowerCase(ext) == [i \in 1..Len(ext) |-> IF ext[i] = "JPG" THEN "jpg" ELSE ext[i]]

\* the file-interaction block chosen for fileExtension
fileInteraction(fileExtension) ==
    IF fileExtension \in {<<"jpg">>, <<"jpeg">>, <<"png">>, <<"gif">>, <<"svg">>, <<"webp">>}
    THEN "image-preview"
    ELSE IF fileExtension \in {<<"mp3">>, <<"wav">>, <<"ogg">>}
    THEN "audio-player"
    ELSE IF fileExtension \in {<<"html">>, <<"js">>, <<"py">>}
    THEN "code-file"
    ELSE "download"

\* stepRegex.test(content)
stepRegexTest(content) == \E i \in 1..Len(content) : content[i] = "Executing step 1/5"

\* createStepElement(type, content, timestamp): className, what the element
\* displays of the text (shown), the interaction block and its file name;
\* content is the argument the element was made from
createStepElement(type, content, task) ==
    IF type = "log" /\ stepRegexTest(content)
    THEN [type |-> type, task |-> task, content |-> content,
          className |-> "step-divider", shown |-> <<"1", "1/5">>,
          interaction |-> "none", fileName |-> <<>>]
    ELSE IF type = "act" /\ saveMatch(content) # <<>>
    THEN LET filePath == Trim(saveMatch(content))
             fileName == splitPop(filePath, "/")
             fileExtension == toLowerCase(splitPop(fileName, "."))
         IN [type |-> type, task |-> task, content |-> content,
             className |-> "step-item", shown |-> content,
             interaction |-> fileInteraction(fileExtension),
             fileName |-> fileName]
    ELSE [type |-> type, task |-> task, content |-> content,
          className |-> "step-item", shown |-> content,
          interaction |-> "none", fileName |-> <<>>]

\* handleEvent for a frame whose data is {result: content}, content a text
handleEventResult(c, type, content) ==
    LET t == channels[c].task
        cleaned == RemoveLoading(container)
        e == ensureStepContainer(cleaned, steps)
    IN
    /\ channels[c].readyState # CLOSED
    /\ budget.frames > 0
    /\ BagCardinality(polls) < MaxPolls
    /\ budget' = Spend("frames")
    /\ channels' = ClearHeartbeat(Delivered(channels, c), c)
    /\ container' = e.cont
    /\ steps' = Append(e.steps, createStepElement(type, content, t))
    /\ polls' = SendPoll(polls, t, "status")
    /\ UNCHANGED humanVars
    /\ UNCHANGED <<currentEventSource, currentTaskId, cancelBtn, statusBar,
                   alertMsg, retryCount, timers, createPending, cancelPending,
                   historyPending, cards, serverStatus>>

\* ------------------------------------------------------------- the service
ServerStep(t, to) ==
    /\ \/ serverStatus[t] = "pending" /\ to \in {"running", "cancelled"}
       \/ serverStatus[t] = "running" /\ to \in TerminalStatus
    /\ serverStatus' = [serverStatus EXCEPT ![t] = to]
    /\ UNCHANGED humanVars
    /\ UNCHANGED <<currentEventSource, currentTaskId, cancelBtn, statusBar,
                   container, steps, alertMsg, channels, retryCount, timers,
                   polls, createPending, cancelPending, historyPending, cards,
                   budget>>

\* GET /tasks answered (loadHistory): the task list is redrawn
loadHistoryResponse(ok) ==
    /\ historyPending > 0
    /\ historyPending' = historyPending - 1
    /\ cards' = IF ok THEN Tasks ELSE {}
    /\ UNCHANGED humanVars
    /\ UNCHANGED <<currentEventSource, currentTaskId, cancelBtn, statusBar,
                   container, steps, alertMsg, channels, retryCount, timers,
                   polls, createPending, cancelPending, serverStatus, budget>>

\* ----------------------------------------------------------------- cancel
\* a cancelTask that tears the session down locally and renders the
\* cancellation itself
cancelTaskTearDown(t, confirmed) ==
    /\ IF confirmed
       THEN /\ budget.cancels > 0
            /\ budget' = Spend("cancels")
            /\ cancelPending' = cancelPending (+) SetToBag({t})
            /\ container' = Append(container, Item("cancelled", t, 0))
            /\ currentTaskId' = 0
       ELSE UNCHANGED <<budget, cancelPending, container, currentTaskId>>
    /\ UNCHANGED humanVars
    /\ UNCHANGED <<currentEventSource, cancelBtn, statusBar, steps, alertMsg,
                   channels, retryCount, timers, polls, createPending,
                   historyPending, cards, serverStatus>>

\* cancelTask(taskId) up to its fetch: confirm(), then POST /tasks/{id}/cancel
cancelTask(t, confirmed) ==
    /\ IF confirmed
       THEN /\ budget.cancels > 0
            /\ budget' = Spend("cancels")
            /\ cancelPending' = cancelPending (+) SetToBag({t})
       ELSE UNCHANGED <<budget, cancelPending>>
    /\ UNCHANGED humanVars
    /\ UNCHANGED <<currentEventSource, currentTaskId, cancelBtn, statusBar,
                   container, steps, alertMsg, channels, retryCount, timers,
                   polls, createPending, historyPending, cards, serverStatus>>

cancelCurrentTask(confirmed) ==
    IF currentTaskId = 0
    THEN /\ alertMsg' = "No active task to cancel"
         /\ UNCHANGED humanVars
         /\ UNCHANGED <<currentEventSource, currentTaskId, cancelBtn, statusBar,
                        container, steps, channels, retryCount, timers, polls,
                        createPending, cancelPending, historyPending, cards,
                        serverStatus, budget>>
    ELSE cancelTask(currentTaskId, confirmed)

\* the service's handling of a POST /tasks/{id}/cancel that it accepts
ServerCancel(st, t) == [st EXCEPT ![t] = "cancelled"]

\* cancelTask after its fetch: 2xx ("ok"), an error body ("rejected"), or the
\* fetch itself failing ("network")
cancelTaskResponse(t, outcome) ==
    /\ BagIn(t, cancelPending)
    /\ cancelPending' = cancelPending (-) SetToBag({t})
    /\ CASE outcome = "ok" ->
                /\ serverStatus[t] \notin TerminalStatus
                /\ serverStatus' = ServerCancel(serverStatus, t)
                /\ cancelBtn' = IF t \in cards THEN FALSE ELSE cancelBtn
                /\ UNCHANGED alertMsg
         [] outcome = "rejected" ->
                /\ alertMsg' = "Task cancellation error"
                /\ UNCHANGED <<serverStatus, cancelBtn>>
         [] OTHER ->
                /\ alertMsg' = "Network error"
                /\ UNCHANGED <<serverStatus, cancelBtn>>
    /\ UNCHANGED humanVars
    /\ UNCHANGED <<currentEventSource, currentTaskId, statusBar, container,
                   steps, channels, retryCount, timers, polls, createPending,
                   historyPending, cards, budget>>

\* ------------------------------------------------------ ask_human handshake
\* texts are sequences of tokens; " " is whitespace
Tokens == {" ", "yes"}
TypedTexts == UNION {[1..n -> Tokens] : n \in 0..MaxTyped}
RequestIds == {"r1", "r2"}

\* the response respondToHumanModal posts for action 'skip'
SkipResponse == <<"User chose to skip this question.">>

\* event.data of an ask_human frame: not JSON ("unparseable"); result a plain
\* string or absent ("string"); result null ("null"); result an object whose
\* request_id is a string, "" or absent ("undefined")
AskPayload(shape, rid) == [shape |-> shape, request_id |-> rid]
AskPayloads ==
    {AskPayload(shape, "undefined") : shape \in {"unparseable", "string", "null"}}
        \cup {AskPayload("object", rid) : rid \in RequestIds \cup {"", "undefined"}}

\* a request id check that lets the empty string through
HasRequestIdLax(rid) == rid # "undefined"

\* if (!requestId) of createHumanRequestElement, negated
HasRequestId(rid) == rid # "undefined" /\ rid # ""

\* const requestId = typeof data.result === 'object' ? data.result.request_id : null
requestIdOf(payload) ==
    IF payload.shape = "object" THEN payload.request_id ELSE "undefined"

\* the .step-item.ask_human element of createHumanRequestElement; rid is the
\* request id of the frame it was made for, shown the answer it displays
AskStep(task, rid, text, shown) ==
    [type |-> "ask_human", task |-> task, text |-> text, rid |-> rid,
     shown |-> shown]
NoRequestIdStep(task) == AskStep(task, "undefined", "Error: No request ID found", <<>>)
WaitingStep(task, rid) == AskStep(task, rid, "Waiting for user response...", <<>>)

\* the modal showAskHumanModal builds; n numbers the calls of showAskHumanModal
Modal(task, rid, n) ==
    [task |-> task, requestId |-> rid, n |-> n, buttons |-> TRUE,
     footer |-> "Agent is waiting for your response to continue"]

\* a showAskHumanModal that leaves the existing modal in place
showAskHumanModalKeep(ms, task, rid, n) == Append(ms, Modal(task, rid, n))

\* showAskHumanModal: getElementById('ask-human-modal') is removed, the new
\* modal appended to document.body
showAskHumanModal(ms, task, rid, n) ==
    Append(IF ms # <<>> THEN Tail(ms) ELSE ms, Modal(task, rid, n))

\* an ask_human listener that ends the stream
askHumanChannelClose(chs, c) == CloseChannel(ClearHeartbeat(chs, c), c)

\* what the ask_human listener does to its EventSource: clearInterval only
askHumanChannel(chs, c) == ClearHeartbeat(Delivered(chs, c), c)

\* listener of 'ask_human'
askHumanFrame(c, payload) ==
    LET t == channels[c].task
        cleaned == RemoveLoading(container)
        e == ensureStepContainer(cleaned, steps)
        rid == requestIdOf(payload)
        n == Len(escapeHandlers) + 1
    IN
    /\ channels[c].readyState # CLOSED
    /\ budget.frames > 0
    /\ budget' = Spend("frames")
    /\ channels' = askHumanChannel(channels, c)
    /\ CASE payload.shape = "unparseable" ->
                \* JSON.parse throws
                UNCHANGED <<container, steps, modals, escapeHandlers>>
         [] payload.shape = "null" ->
                \* data.result.question throws after ensureStepContainer
                /\ container' = e.cont
                /\ steps' = e.steps
                /\ UNCHANGED <<modals, escapeHandlers>>
         [] OTHER ->
                /\ container' = e.cont
                /\ IF HasRequestId(rid)
                   THEN /\ steps' = Append(e.steps, WaitingStep(t, rid))
                        /\ modals' = showAskHumanModal(modals, t, rid, n)
                        /\ escapeHandlers' =
                              Append(escapeHandlers, [task |-> t, requestId |-> rid])
                   ELSE /\ steps' = Append(e.steps, NoRequestIdStep(t))
                        /\ UNCHANGED <<modals, escapeHandlers>>
    /\ UNCHANGED <<respondPending, closeTimers, removeTimers>>
    /\ UNCHANGED <<currentEventSource, currentTaskId, cancelBtn, statusBar,
                   alertMsg, retryCount, timers, polls, createPending,
                   cancelPending, historyPending, cards, serverStatus>>

\* showModalLoading / showModalError / showModalSuccess: they act on
\* getElementById('ask-human-modal'), the first modal of the document
showModalLoading(ms) ==
    IF ms = <<>> THEN ms
    ELSE [ms EXCEPT ![1] = [@ EXCEPT !.buttons = FALSE,
                                     !.footer = "Sending response..."]]
showModalFooter(ms, message) ==
    IF ms = <<>> THEN ms ELSE [ms EXCEPT ![1].footer = message]

\* body of the POST /tasks/{id}/respond
Respond(task, rid, response, action) ==
    [task |-> task, request_id |-> rid, response |-> response, action |-> action]

\* respondToHumanModal(taskId, requestId, responseElementId, action) up to its
\* fetch, on modals ms with posts in flight: typed is the textarea's value
respondToHumanModal(ms, posts, task, rid, typed, action) ==
    LET response == IF action = "skip" THEN SkipResponse ELSE Trim(typed) IN
    IF response = <<>>
    THEN [modals |-> showModalFooter(ms, "Please enter a response or click Skip"),
          posts |-> posts, sent |-> 0]
    ELSE [modals |-> showModalLoading(ms),
          posts |-> posts (+) SetToBag({Respond(task, rid, response, action)}),
          sent |-> 1]

\* the user clicks Send Response (action = "respond") or Skip on modal m
ClickModal(m, typed, action) ==
    LET r == respondToHumanModal(modals, respondPending, modals[m].task,
                                 modals[m].requestId, typed, action)
    IN
    /\ modals[m].buttons
    /\ budget.posts >= r.sent
    /\ respondPending' = r.posts
    /\ modals' = r.modals
    /\ budget' = [budget EXCEPT !.posts = @ - r.sent]
    /\ UNCHANGED <<escapeHandlers, closeTimers, removeTimers>>
    /\ UNCHANGED <<currentEventSource, currentTaskId, cancelBtn, statusBar,
                   container, steps, alertMsg, channels, retryCount, timers,
                   polls, createPending, cancelPending, historyPending, cards,
                   serverStatus>>

\* the keydown listeners run in the order they were added: handleEscape of
\* each showAskHumanModal call so far asks confirm() and, when confirmed,
\* calls respondToHumanModal(..., 'skip')
RECURSIVE handleEscapes(_, _, _, _)
handleEscapes(hs, confirms, ms, posts) ==
    IF hs = <<>>
    THEN [modals |-> ms, posts |-> posts, sent |-> 0]
    ELSE LET r == IF Head(confirms)
                  THEN respondToHumanModal(ms, posts, Head(hs).task,
                                           Head(hs).requestId, <<>>, "skip")
                  ELSE [modals |-> ms, posts |-> posts, sent |-> 0]
             rest == handleEscapes(Tail(hs), Tail(confirms), r.modals, r.posts)
         IN [rest EXCEPT !.sent = @ + r.sent]

\* the user presses Escape and answers the confirm() of each listener
PressEscape(confirms) ==
    LET r == handleEscapes(escapeHandlers, confirms, modals, respondPending) IN
    /\ escapeHandlers # <<>>
    /\ budget.posts >= r.sent
    /\ budget' = [budget EXCEPT !.posts = @ - r.sent]
    /\ modals' = r.modals
    /\ respondPending' = r.posts
    /\ UNCHANGED <<escapeHandlers, closeTimers, removeTimers>>
    /\ UNCHANGED <<currentEventSource, currentTaskId, cancelBtn, statusBar,
                   container, steps, alertMsg, channels, retryCount, timers,
                   polls, createPending, cancelPending, historyPending, cards,
                   serverStatus>>

\* element.textContent.includes('Waiting for user response')
IsWaiting(step) ==
    step.type = "ask_human" /\ step.text = "Waiting for user response..."

\* the first .step-item.ask_human that is still waiting, or 0
FirstWaiting(st) ==
    IF \E i \in 1..Len(st) : IsWaiting(st[i])
    THEN CHOOSE i \in 1..Len(st) :
            IsWaiting(st[i]) /\ \A j \in 1..(i - 1) : ~IsWaiting(st[j])
    ELSE 0

\* a responseText that quotes the response of a skip as well
responseTextQuoted(response, action) == <<"\"">> \o response \o <<"\"">>

\* const responseText = action === 'skip' ? '(skipped)' : `"${response}"`
responseText(response, action) ==
    IF action = "skip" THEN <<"(skipped)">>
    ELSE <<"\"">> \o response \o <<"\"">>

\* an updateLogElement that looks the element up by its request id
updateLogElementById(st, requestId, response, action) ==
    IF \E i \in 1..Len(st) : IsWaiting(st[i]) /\ st[i].rid = requestId
    THEN LET i == CHOOSE i \in 1..Len(st) :
                     IsWaiting(st[i]) /\ st[i].rid = requestId
         IN [st EXCEPT ![i] = [@ EXCEPT !.text = "User response: ",
                                        !.shown = responseText(response, action)]]
    ELSE st

\* updateLogElement(requestId, response, action)
updateLogElement(st, requestId, response, action) ==
    LET i == FirstWaiting(st) IN
    IF i = 0 THEN st
    ELSE [st EXCEPT ![i] = [@ EXCEPT !.text = "User response: ",
                                     !.shown = responseText(response, action)]]

\* updateLogElement is called in the result.ok branch only
stepsAfterRespond(st, p, outcome) ==
    IF outcome = "ok"
    THEN updateLogElement(st, p.request_id, p.response, p.action)
    ELSE st

\* respondToHumanModal after its fetch: 2xx ("ok"), an error body
\* ("rejected"), or the fetch itself failing ("network")
respondResponse(p, outcome) ==
    /\ BagIn(p, respondPending)
    /\ respondPending' = respondPending (-) SetToBag({p})
    /\ CASE outcome = "ok" ->
                /\ modals' = showModalFooter(modals,
                                 IF p.action = "skip" THEN "Question skipped"
                                 ELSE "Response sent successfully")
                /\ closeTimers' = closeTimers + 1
         [] outcome = "rejected" ->
                /\ modals' = showModalFooter(modals, "Error: Failed to send response")
                /\ UNCHANGED closeTimers
         [] OTHER ->
                /\ modals' = showModalFooter(modals, "Network error. Please try again.")
                /\ UNCHANGED closeTimers
    /\ steps' = stepsAfterRespond(steps, p, outcome)
    /\ UNCHANGED <<escapeHandlers, removeTimers>>
    /\ UNCHANGED <<currentEventSource, currentTaskId, cancelBtn, statusBar,
                   container, alertMsg, channels, retryCount, timers, polls,
                   createPending, cancelPending, historyPending, cards,
                   serverStatus, budget>>

\* the 1.5 s timer fires: closeAskHumanModal() starts the fade-out of the
\* modal it finds and arms the timer that removes that element
closeAskHumanModal ==
    /\ closeTimers > 0
    /\ closeTimers' = closeTimers - 1
    /\ removeTimers' = IF modals # <<>> THEN removeTimers \cup {modals[1].n}
                       ELSE removeTimers
    /\ UNCHANGED <<modals, escapeHandlers, respondPending>>
    /\ UNCHANGED <<currentEventSource, currentTaskId, cancelBtn, statusBar,
                   container, steps, alertMsg, channels, retryCount, timers,
                   polls, createPending, cancelPending, historyPending, cards,
                   serverStatus, budget>>

\* the 300 ms timer fires: modal.remove() of the element it holds
ModalRemoved(n) ==
    /\ n \in removeTimers
    /\ removeTimers' = removeTimers \ {n}
    /\ modals' = SelectSeq(modals, LAMBDA m : m.n # n)
    /\ UNCHANGED <<escapeHandlers, respondPending, closeTimers>>
    /\ UNCHANGED <<currentEventSource, currentTaskId, cancelBtn, statusBar,
                   container, steps, alertMsg, channels, retryCount, timers,
                   polls, createPending, cancelPending, historyPending, cards,
                   serverStatus, budget>>

\* ------------------------------------------------------- the prompt input
\* a prompt taken from the input as typed
PromptUntrimmed(value) == IF value = <<>> THEN "" ELSE "Summarize file X"

\* const prompt = promptInput.value.trim(): empty, or the text of the run
PromptOf(value) == IF Trim(value) = <<>> THEN "" ELSE "Summarize file X"

\* createTask() with value typed into prompt-input
createTaskFromInput(value) == createTask(PromptOf(value))

\* ------------------------------------------------------------------- Next
\* the frames pushed on the channels: eventTypes among types, event.data
\* among payloads
Frames(types, payloads) ==
    \/ \E c \in Chans, type \in types, payload \in payloads :
            handleEvent(c, type, payload)
    \/ \E c \in Chans, type \in {"complete", "cancelled"}, payload \in payloads :
            completeOrCancelled(c, type, payload)
    \/ \E c \in Chans, payload \in payloads : errorFrame(c, payload)

\* the session engine and its environment: task submission, channels,
\* transport errors, polls, retry timers, the service
Engine ==
    \/ createTask("Summarize file X")
    \/ createTaskOk
    \/ createTaskFailed
    \/ \E t \in Tasks : RetryTimerFires(t)
    \/ \E c \in Chans, fatal \in BOOLEAN : TransportError(c, fatal)
    \/ \E p \in BagToSet(polls) : ServerAnswersPoll(p)
    \/ \E p \in BagToSet(polls) : StatusPollResponse(p)
    \/ \E p \in BagToSet(polls) : OnErrorPollResponse(p)
    \/ \E p \in BagToSet(polls) : PollFails(p)
    \/ \E t \in Tasks, to \in Status : ServerStep(t, to)

\* one session: a single createTask and the whole retry chain
Init ==
    InitWith([tasks |-> 1, frames |-> MaxFrames, ticks |-> 0, cancels |-> 0,
              errors |-> maxRetries + 1, posts |-> 0])

Next ==
    \/ Engine
    \/ Frames({"log"}, {"ok", "unparseable"})

Spec == Init /\ [][Next]_vars

\* several tasks from the primary entry point, few transport errors
InitMulti ==
    InitWith([tasks |-> MaxTasks, frames |-> 1, ticks |-> 0, cancels |-> 0,
              errors |-> MaxErrors, posts |-> 0])

SpecMulti == InitMulti /\ [][Next]_vars

\* one session with the cancel button and the history list
InitCancel ==
    InitWith([tasks |-> 1, frames |-> 1, ticks |-> 0,
              cancels |-> MaxCancels, errors |-> MaxErrors, posts |-> 0])

NextCancel ==
    \/ Next
    \/ \E ok \in BOOLEAN : loadHistoryResponse(ok)
    \/ \E confirmed \in BOOLEAN : cancelCurrentTask(confirmed)
    \/ \E t \in Tasks, outcome \in {"ok", "rejected", "network"} :
            cancelTaskResponse(t, outcome)

SpecCancel == InitCancel /\ [][NextCancel]_vars

\* one session with the ask_human handshake: two frames (a question and the
\* one that replaces it); the user answers, skips or presses Escape; no
\* transport errors
InitHuman ==
    InitWith([tasks |-> 1, frames |-> 2, ticks |-> 0, cancels |-> 0,
              errors |-> 0, posts |-> MaxPosts])

NextHuman ==
    \/ createTask("Summarize file X")
    \/ createTaskOk
    \/ \E p \in BagToSet(polls) : StatusPollResponse(p)
    \/ \E p \in BagToSet(polls) : PollFails(p)
    \/ \E t \in Tasks, to \in Status : ServerStep(t, to)
    \/ \E c \in Chans : handleEvent(c, "log", "ok")
    \/ \E c \in Chans, payload \in AskPayloads : askHumanFrame(c, payload)
    \/ \E m \in 1..Len(modals), typed \in TypedTexts, action \in {"respond", "skip"} :
            ClickModal(m, typed, action)
    \/ \E confirms \in [1..Len(escapeHandlers) -> BOOLEAN] : PressEscape(confirms)
    \/ \E p \in BagToSet(respondPending), outcome \in {"ok", "rejected", "network"} :
            respondResponse(p, outcome)
    \/ closeAskHumanModal
    \/ \E n \in removeTimers : ModalRemoved(n)

SpecHuman == InitHuman /\ [][NextHuman]_vars

\* the primary entry point alone: prompts submitted one after the other or
\* before the previous reply, each accepted or refused by the service
InitStart ==
    InitWith([tasks |-> MaxTasks + 1, frames |-> 0, ticks |-> 0, cancels |-> 0,
              errors |-> 0, posts |-> 0])

NextStart ==
    \/ createTask("Summarize file X")
    \/ createTaskOk
    \/ createTaskFailed
    \/ \E ok \in BOOLEAN : loadHistoryResponse(ok)
    \/ \E p \in BagToSet(polls) : StatusPollResponse(p)
    \/ \E p \in BagToSet(polls) : PollFails(p)

SpecStart == InitStart /\ [][NextStart]_vars

\* one session and everything that writes to the task container: frames with
\* and without a listener, heartbeat ticks, transport errors, the details of
\* a history card
InitRegion ==
    InitWith([tasks |-> 1, frames |-> MaxFrames, ticks |-> MaxTicks,
              cancels |-> 0, errors |-> MaxErrors, posts |-> 0])

NextRegion ==
    \/ Engine
    \/ Frames({"log", "message"}, {"ok"})
    \/ \E c \in Chans, name \in UnknownNames : unknownFrame(c, name)
    \/ \E c \in Chans : HeartbeatTick(c)
    \/ \E ok \in BOOLEAN : loadHistoryResponse(ok)
    \/ \E t \in Tasks : showTaskDetails(t)
    \/ \E p \in BagToSet(polls), ok \in BOOLEAN : showTaskDetailsResponse(p, ok)

SpecRegion == InitRegion /\ [][NextRegion]_vars

\* one session whose channel delivers one frame of any text
InitRender ==
    InitWith([tasks |-> 1, frames |-> 1, ticks |-> 0, cancels |-> 0,
              errors |-> 0, posts |-> 0])

NextRender ==
    \/ createTask("Summarize file X")
    \/ createTaskOk
    \/ /\ budget.frames > 0
       /\ \E c \in Chans, type \in {"act", "log", "think"}, content \in Contents :
            handleEventResult(c, type, content)

SpecRender == InitRender /\ [][NextRender]_vars

\* one session under the scheduling the browser and the service provide:
\* POST /tasks is answered, an open channel does not stay silent for ever (a
\* transport error ends it if nothing else does), every poll is answered or
\* fails, every armed retry timer fires
InitStops ==
    InitWith([tasks |-> 1, frames |-> 1, ticks |-> 0, cancels |-> 0,
              errors |-> maxRetries + 1, posts |-> 0])

Scheduling ==
    /\ WF_vars(createTaskOk \/ createTaskFailed)
    /\ WF_vars(\E c \in Chans, fatal \in BOOLEAN : TransportError(c, fatal))
    /\ WF_vars(\E p \in BagToSet(polls) :
                  StatusPollResponse(p) \/ OnErrorPollResponse(p) \/ PollFails(p))
    /\ WF_vars(\E t \in Tasks : RetryTimerFires(t))

SpecStops == InitStops /\ [][Next]_vars /\ Scheduling

\* prompts typed into the input, empty, blank or not, before and during a
\* session
InitInput ==
    InitWith([tasks |-> MaxTasks, frames |-> 1, ticks |-> 0, cancels |-> 0,
              errors |-> 0, posts |-> 0])

NextInput ==
    \/ \E value \in TypedTexts : createTaskFromInput(value)
    \/ createTaskOk
    \/ createTaskFailed
    \/ \E p \in BagToSet(polls) : StatusPollResponse(p)
    \/ \E t \in Tasks, to \in Status : ServerStep(t, to)
    \/ \E c \in Chans : handleEvent(c, "log", "ok")

SpecInput == InitInput /\ [][NextInput]_vars

\* one session in which the user answers a question (by button or Escape)
\* and cancels the task; the service accepts or rejects either request
InitActions ==
    InitWith([tasks |-> 1, frames |-> 1, ticks |-> 0, cancels |-> MaxCancels,
              errors |-> 0, posts |-> MaxPosts])

NextActions ==
    \/ createTask("Summarize file X")
    \/ createTaskOk
    \/ \E ok \in BOOLEAN : loadHistoryResponse(ok)
    \/ \E p \in BagToSet(polls) : StatusPollResponse(p)
    \/ \E t \in Tasks, to \in Status : ServerStep(t, to)
    \/ \E c \in Chans, payload \in AskPayloads : askHumanFrame(c, payload)
    \/ \E m \in 1..Len(modals), typed \in TypedTexts, action \in {"respond", "skip"} :
            ClickModal(m, typed, action)
    \/ \E confirms \in [1..Len(escapeHandlers) -> BOOLEAN] : PressEscape(confirms)
    \/ \E p \in BagToSet(respondPending), outcome \in {"ok", "rejected", "network"} :
            respondResponse(p, outcome)
    \/ closeAskHumanModal
    \/ \E n \in removeTimers : ModalRemoved(n)
    \/ \E confirmed \in BOOLEAN : cancelCurrentTask(confirmed)
    \/ \E t \in Tasks, outcome \in {"ok", "rejected", "network"} :
            cancelTaskResponse(t, outcome)

SpecActions == InitActions /\ [][NextActions]_vars

\* ------------------------------------------------------------ properties
ChansOf(t) == {c \in Chans : channels[c].task = t}
NumChans(t) == Cardinality(ChansOf(t))
OpenChans == {c \in Chans : channels[c].readyState # CLOSED}
AllClosed(t) == \A c \in ChansOf(t) : channels[c].readyState = CLOSED
OnErrorPollPending(t) ==
    \E p \in BagToSet(polls) : p.task = t /\ p.kind = "onerror"
Rendered(kind, t) == \E i \in 1..Len(container) :
    container[i].kind = kind /\ container[i].task = t
TerminalTexts == {StatusText(st) : st \in TerminalStatus}

\* the session of task t is Closed-Terminal: a terminal frame was handled,
\* or a terminal notice or status of it is shown, and nothing of it is open
\* or scheduled
TerminalSeen(t) ==
    \/ \E c \in ChansOf(t) : channels[c].terminal = "ok"
    \/ Rendered("complete", t) \/ Rendered("error", t) \/ Rendered("cancelled", t)
    \/ statusBar \in TerminalTexts
ClosedTerminal(t) ==
    /\ TerminalSeen(t) /\ AllClosed(t) /\ timers[t] = 0 /\ ~OnErrorPollPending(t)

\* C1 (as stated): retryCount never exceeds maxRetries, and from a state in
\* which retryCount equals maxRetries no step opens a channel for the session.
C1_NoOpenAtMaxRetries ==
    [][(\A t \in Tasks :
          /\ retryCount[t] <= maxRetries
          /\ retryCount[t] = maxRetries => NumChans(t)' = NumChans(t))]_vars

\* C1 (amended): retryCount never exceeds maxRetries; every increment of it
\* schedules exactly one reopen, so the channels a session has opened plus its
\* pending retry timers always number 1 + retryCount: at most 1 + maxRetries
\* channels in all, and none once the reopen of the last increment is spent.
C1_RetryBudget ==
    \A t \in Tasks :
        /\ retryCount[t] <= maxRetries
        /\ NumChans(t) + timers[t] = 1 + retryCount[t]
        /\ NumChans(t) <= 1 + maxRetries

\* C1 witness: the budget is exhausted: four channels opened and closed, the
\* connection-lost notice rendered
C1_Exhausted ==
    \E t \in Tasks :
        /\ retryCount[t] = maxRetries
        /\ NumChans(t) = 1 + maxRetries
        /\ AllClosed(t)
        /\ Rendered("lost", t)

\* what C2 asks of a channel after its terminal frame
ClosedOnceNoReconnect(c) ==
    LET t == channels[c].task IN
    /\ channels[c].readyState = CLOSED
    /\ channels[c].closeCalls = 1
    /\ timers[t] = 0
    /\ ~OnErrorPollPending(t)
    /\ \A d \in ChansOf(t) : d <= c

\* C2 (as stated): after a terminal frame (complete, error, cancelled) was
\* delivered on a channel, the channel has been closed exactly once and no
\* reconnect follows.
C2_AnyTerminalFrameCloses ==
    \A c \in Chans : channels[c].terminal # "none" => ClosedOnceNoReconnect(c)

\* C2 (amended): after a terminal frame whose payload parses was delivered on
\* a channel, the channel has been closed exactly once and no reconnect
\* follows: no retry timer, no poll of onerror, no later channel of the task.
C2_TerminalFrameCloses ==
    \A c \in Chans : channels[c].terminal = "ok" => ClosedOnceNoReconnect(c)

\* C2 witness: a terminal frame handled on a channel reopened after a retry
C2_TerminalAfterRetry ==
    \E c \in Chans :
        /\ channels[c].terminal = "ok"
        /\ retryCount[channels[c].task] > 0
        /\ NumChans(channels[c].task) > 1

\* C3: when the poll made by onerror answers with a terminal status
\* (completed, failed, cancelled), retryCount is not incremented and no
\* reopen is scheduled.
C3_TerminalPollNoRetry ==
    [][(\A p \in BagToSet(polls) :
          (OnErrorPollResponse(p) /\ Answer(p) \in TerminalStatus)
              => (retryCount' = retryCount /\ timers' = timers))]_vars

\* C4: while the status bar shows a terminal status of the task, no step
\* opens a channel.
C4_NoReopenAfterTerminal ==
    [][(statusBar \in TerminalTexts => Len(channels') = Len(channels))]_vars

\* C5: every channel of a task except the latest one is closed, and while a
\* retry timer of the task is pending all of them are: at most one channel
\* per task id is open.
C5_OneChannelPerTask ==
    \A t \in Tasks :
        /\ \A c, d \in ChansOf(t) : c < d => channels[c].readyState = CLOSED
        /\ timers[t] > 0 => AllClosed(t)
        /\ Cardinality(ChansOf(t) \cap OpenChans) <= 1

\* C5 witness: a reopened channel is delivering frames, the one before it closed
C5_ReopenedAndOpen ==
    \E t \in Tasks : \E c, d \in ChansOf(t) :
        /\ c < d
        /\ channels[c].readyState = CLOSED
        /\ channels[d].readyState = OPEN

\* C6: there is never more than one open channel, and currentEventSource
\* refers to it.
C6_OneStreamedTask ==
    /\ Cardinality(OpenChans) <= 1
    /\ \A c \in OpenChans : currentEventSource = c

\* C7: the response of a status poll of a task that a later createTask has
\* superseded changes neither the status bar nor any channel.
C7_StalePollIgnored ==
    [][(\A p \in BagToSet(polls) :
          (StatusPollResponse(p) /\ \E t \in Tasks : t > p.task)
              => (statusBar' = statusBar /\ channels' = channels))]_vars

\* C8: once the user confirmed the cancel of a task (its cancel request is
\* on its way), every channel of the task is closed and no retry is pending.
C8_CancelStopsChannel ==
    \A t \in Tasks :
        BagIn(t, cancelPending) => (AllClosed(t) /\ timers[t] = 0)

\* a step of cancel for task t: the button (cancelCurrentTask, which names
\* the current task or none) or the answer to its request
CancelStep(t) ==
    \/ /\ currentTaskId \in {0, t}
       /\ \E confirmed \in BOOLEAN : cancelCurrentTask(confirmed)
    \/ \E outcome \in {"ok", "rejected", "network"} : cancelTaskResponse(t, outcome)

\* C9: a step of cancel taken when the session is Closed-Terminal leaves the
\* channels, retryCount, currentTaskId, currentEventSource, the container and
\* the steps unchanged (so it renders no terminal notice).
C9_CancelAfterTerminalNoOp ==
    [][(\A t \in Tasks :
          (ClosedTerminal(t) /\ CancelStep(t))
              => UNCHANGED <<channels, retryCount, timers, currentTaskId,
                             currentEventSource, container, steps>>)]_vars

\* C9 witness: the session is Closed-Terminal with currentTaskId still set
\* (closed by the poll of onerror), and a cancel request sent for it was
\* answered with an error
C9_CancelledWhenTerminal ==
    \E t \in Tasks :
        /\ ClosedTerminal(t)
        /\ currentTaskId = t
        /\ budget.cancels < MaxCancels
        /\ alertMsg = "Task cancellation error"

\* C10: a session with no open channel, no pending retry timer, no poll of
\* onerror under way and no terminal state shows the connection-lost notice.
C10_NeverSilentlyGivesUp ==
    \A t \in Tasks :
        (AllClosed(t) /\ timers[t] = 0 /\ ~OnErrorPollPending(t) /\ ~TerminalSeen(t))
            => Rendered("lost", t)

\* ----------------------------------------------- properties of the handshake
NoRequestIdSteps(st) ==
    Cardinality({i \in 1..Len(st) : st[i].text = "Error: No request ID found"})

\* an ask_human payload that parses and carries no non-empty request_id
NoRequestId(payload) ==
    \/ payload.shape = "string"
    \/ payload.shape = "object" /\ payload.request_id \in {"", "undefined"}

C12_LatestPromptWins ==
    [][(/\ Len(modals') <= 1
        /\ \A c \in Chans, payload \in AskPayloads :
             (askHumanFrame(c, payload) /\ payload.shape = "object"
                                        /\ payload.request_id \in RequestIds) =>
                 /\ Len(modals') = 1
                 /\ modals'[1].requestId = payload.request_id
                 /\ modals'[1].n = Len(escapeHandlers')
                 /\ modals'[1].buttons)]_vars

\* C12 witness: the prompt of a second question is shown; no response was
\* ever posted and no close timer ran, so the first prompt was still open
\* when the second frame arrived
C12_PromptReplaced ==
    /\ Len(modals) = 1
    /\ modals[1].n = 2
    /\ modals[1].requestId # escapeHandlers[1].requestId
    /\ budget.posts = MaxPosts
    /\ closeTimers = 0 /\ removeTimers = {}

\* every ask_human Step of the narrative was made for a request id of its own
DistinctRequestIds(st) ==
    \A i, j \in 1..Len(st) :
        (st[i].type = "ask_human" /\ st[j].type = "ask_human"
           /\ HasRequestId(st[i].rid) /\ st[i].rid = st[j].rid) => i = j

\* C13: when the only response posted in the run is accepted by the server,
\* the pending Step made for its request_id shows the submitted answer and
\* every other Step is left as it was (the questions of the narrative have
\* request ids of their own; several of their Steps may be pending).
C13_AnswerUpdatesItsStep ==
    [][(\A p \in BagToSet(respondPending) :
          (/\ respondResponse(p, "ok")
           /\ budget.posts = MaxPosts - 1
           /\ DistinctRequestIds(steps)) =>
              /\ Len(steps') = Len(steps)
              /\ \A i \in 1..Len(steps) :
                    IF IsWaiting(steps[i]) /\ steps[i].rid = p.request_id
                    THEN /\ steps'[i].rid = p.request_id
                         /\ steps'[i].shown = responseText(p.response, p.action)
                    ELSE steps'[i] = steps[i])]_vars

\* C14: when a respond POST for the open prompt fails (error body or network
\* error) the prompt stays, its footer shows the error, its Send and Skip
\* buttons are enabled again, and no POST is sent by the failure handling.
C14_ResubmitAfterFailure ==
    [][(\A p \in BagToSet(respondPending), outcome \in {"rejected", "network"} :
          (/\ respondResponse(p, outcome)
           /\ modals # <<>>
           /\ modals[1].requestId = p.request_id) =>
              /\ Len(modals') = 1
              /\ modals'[1].requestId = p.request_id
              /\ modals'[1].footer \in {"Error: Failed to send response",
                                        "Network error. Please try again."}
              /\ modals'[1].buttons
              /\ respondPending' = respondPending (-) SetToBag({p}))]_vars

AllSpaces(s) == \A i \in 1..Len(s) : s[i] = " "

\* response is what is left of typed when the whitespace at both ends is cut
TrimmedOf(response, typed) ==
    /\ response # <<>>
    /\ Head(response) # " " /\ response[Len(response)] # " "
    /\ \E a, b \in 0..Len(typed) :
          /\ a + b <= Len(typed)
          /\ AllSpaces(SubSeq(typed, 1, a))
          /\ AllSpaces(SubSeq(typed, Len(typed) - b + 1, Len(typed)))
          /\ response = SubSeq(typed, a + 1, Len(typed) - b)

\* C15: Skip posts {request_id of the prompt, 'User chose to skip this
\* question.'} whatever was typed; Send Response posts the typed text with the
\* whitespace at its ends cut, and posts nothing when that is empty. On a 2xx
\* reply the pending Step that is updated shows (skipped) for a skip and the
\* quoted response otherwise, and no other Step changes. (A click that is
\* not a stuttering step changes the prompt or the posts in flight.)
C15_SkipAndAnswerContent ==
    [][(/\ \A m \in 1..Len(modals) :
           (modals' # modals \/ respondPending' # respondPending) =>
             /\ \A typed \in {<<>>, <<"yes">>, <<" ", "yes">>} :
                ClickModal(m, typed, "skip") =>
                   respondPending' = respondPending (+) SetToBag({
                       [task |-> modals[m].task,
                        request_id |-> modals[m].requestId,
                        response |-> <<"User chose to skip this question.">>,
                        action |-> "skip"]})
             /\ \A typed \in TypedTexts :
                ClickModal(m, typed, "respond") =>
                   \/ AllSpaces(typed) /\ respondPending' = respondPending
                   \/ \E p \in BagToSet(respondPending') :
                        /\ TrimmedOf(p.response, typed)
                        /\ p = [task |-> modals[m].task,
                                request_id |-> modals[m].requestId,
                                response |-> p.response, action |-> "respond"]
                        /\ respondPending' = respondPending (+) SetToBag({p})
        /\ \A p \in BagToSet(respondPending) :
             respondResponse(p, "ok") =>
                 \/ steps' = steps /\ \A i \in 1..Len(steps) : ~IsWaiting(steps[i])
                 \/ \E i \in 1..Len(steps) :
                       /\ IsWaiting(steps[i]) /\ ~IsWaiting(steps'[i])
                       /\ steps'[i].shown =
                             IF p.action = "skip" THEN <<"(skipped)">>
                             ELSE <<"\"">> \o p.response \o <<"\"">>
                       /\ \A j \in 1..Len(steps) : j # i => steps'[j] = steps[j])]_vars

\* C15 witness: the Step of a skipped question shows (skipped), the Step of an
\* answered one the quoted answer, each Step being the one of the request id
\* the response was posted for
C15_SkippedAndAnswered ==
    \E i, j \in 1..Len(steps) :
        /\ steps[i].type = "ask_human" /\ steps[j].type = "ask_human"
        /\ steps[i].shown = <<"(skipped)">>
        /\ steps[j].shown = <<"\"", "yes", "\"">>
        /\ steps[i].rid # steps[j].rid

\* C16: pressing Escape while a prompt is open: if the user confirms, a skip
\* is posted for the open prompt's request_id; if the user declines, nothing
\* is posted and the prompt is left as it is.
C16_EscapeIsSkip ==
    [][(\A confirms \in [1..Len(escapeHandlers) -> BOOLEAN] :
          (PressEscape(confirms) /\ modals # <<>>) =>
              LET skip == Respond(modals[1].task, modals[1].requestId,
                                  SkipResponse, "skip")
              IN IF \E i \in 1..Len(confirms) : confirms[i]
                 THEN CopiesIn(skip, respondPending')
                          > CopiesIn(skip, respondPending)
                 ELSE respondPending' = respondPending /\ modals' = modals)]_vars

\* a step sends one more status poll of task t
PollSent(t) ==
    CopiesIn(Poll(t, "status"), polls') = CopiesIn(Poll(t, "status"), polls) + 1

\* C17: a status poll is sent on every channel open, after every classified
\* frame (the six eventTypes and ask_human) and after every terminal frame
\* (complete, error, cancelled).
C17_PollAfterEveryFrame ==
    [][(/\ Len(channels') > Len(channels) => PollSent(channels'[Len(channels')].task)
        /\ \A c \in Chans :
             /\ \A type \in eventTypes :
                  handleEvent(c, type, "ok") => PollSent(channels[c].task)
             /\ \A rid \in RequestIds :
                  askHumanFrame(c, AskPayload("object", rid))
                      => PollSent(channels[c].task)
             /\ \A type \in {"complete", "cancelled"} :
                  completeOrCancelled(c, type, "ok") => PollSent(channels[c].task)
             /\ errorFrame(c, "ok") => PollSent(channels[c].task))]_vars

\* C18: a failed status poll (initial, per-frame or final) only leaves the
\* bag of polls: channels, retryCount, retry timers, the globals and the
\* render surface are unchanged.
C18_FailedPollChangesNothing ==
    [][(\A p \in BagToSet(polls) :
          (PollFails(p) /\ p.kind = "status") =>
              /\ polls' = polls (-) SetToBag({p})
              /\ UNCHANGED <<channels, retryCount, timers, currentEventSource,
                             currentTaskId, statusBar, cancelBtn, container,
                             steps>>)]_vars

\* C18 witness: every status poll so far failed (the status bar was never
\* written), the channel is open with no retry, and the frames that arrived
\* in between were rendered
C18_FramesAfterFailedPolls ==
    /\ statusBar = ""
    /\ polls = EmptyBag
    /\ Len(steps) = 2
    /\ \E c \in Chans : channels[c].readyState = OPEN
    /\ \A t \in Tasks : retryCount[t] = 0 /\ timers[t] = 0

\* a step delivers frame type on channel c with a payload that is not JSON
MalformedFrame(c) ==
    \/ \E type \in eventTypes : handleEvent(c, type, "unparseable")
    \/ \E type \in {"complete", "cancelled"} :
          completeOrCancelled(c, type, "unparseable")
    \/ errorFrame(c, "unparseable")
    \/ askHumanFrame(c, AskPayload("unparseable", "undefined"))

\* C19: a frame whose payload is not JSON adds an error element to the
\* narrative (to the container or to its steps).
C19_MalformedRendersError ==
    [][(\A c \in Chans :
          MalformedFrame(c) =>
              \/ Len(steps') > Len(steps)
              \/ Len(container') > Len(container))]_vars

\* C20: a frame whose payload is not JSON does not close its channel, does
\* not change retryCount, schedules no reopen and starts no poll of onerror.
C20_SingleBadFrame ==
    [][(\A c \in Chans :
          MalformedFrame(c) =>
              /\ channels'[c].readyState = OPEN
              /\ channels'[c].closeCalls = channels[c].closeCalls
              /\ retryCount' = retryCount
              /\ timers' = timers
              /\ polls' = polls)]_vars

\* ------------------------------------------------- properties of reconnection
\* C21: when the poll made after a transport error answers with a status
\* that is not terminal and retryCount is below maxRetries, retryCount grows
\* by exactly 1, one retry timer is armed and no channel is opened in that
\* step; when the timer fires, exactly one fresh channel is opened, for the
\* same task id, and retryCount stays.
C21_RetryOnceThenReopen ==
    [][(/\ \A p \in BagToSet(polls) :
             (/\ OnErrorPollResponse(p)
              /\ Answer(p) \notin TerminalStatus
              /\ retryCount[p.task] < maxRetries) =>
                 /\ retryCount'[p.task] = retryCount[p.task] + 1
                 /\ timers'[p.task] = timers[p.task] + 1
                 /\ channels' = channels
        /\ \A t \in Tasks :
             RetryTimerFires(t) =>
                 /\ Len(channels') = Len(channels) + 1
                 /\ channels'[Len(channels')].task = t
                 /\ channels'[Len(channels')].readyState = CONNECTING
                 /\ SubSeq(channels', 1, Len(channels)) = channels
                 /\ timers'[t] = timers[t] - 1
                 /\ retryCount'[t] = retryCount[t])]_vars

\* C21 witness: after one transport error and a poll that did not answer
\* terminal, retryCount is 1, the warning 1/3 is rendered and the second
\* channel of the task is open, the first closed
C21_ReopenedOnce ==
    \E t \in Tasks :
        /\ retryCount[t] = 1
        /\ NumChans(t) = 2
        /\ timers[t] = 0
        /\ \E i \in 1..Len(container) :
              container[i] = Item("warning", t, 1)
        /\ \E c, d \in ChansOf(t) :
              /\ c < d
              /\ channels[c].readyState = CLOSED
              /\ channels[d].readyState # CLOSED

\* C22: retryCount of a session never decreases, whatever the step (frames
\* delivered on a reopened channel included), and the session never has more
\* than 1 + maxRetries channels.
C22_RetryCountPreserved ==
    [][(\A t \in Tasks :
          /\ retryCount'[t] >= retryCount[t]
          /\ NumChans(t)' <= 1 + maxRetries)]_vars

\* C22 witness: a reopened channel has delivered a rendered frame and
\* retryCount still counts the retries made
C22_FrameAfterReopen ==
    \E t \in Tasks : \E c \in ChansOf(t) :
        /\ retryCount[t] = 2
        /\ NumChans(t) = 3
        /\ channels[c].readyState = OPEN
        /\ Len(steps) >= 1

\* ---------------------------------------------- properties of remote actions
\* C23: when the service rejects a respond or a cancel request, the failure
\* is shown to the user (in the footer of a prompt in the document, in an
\* alert) and the Steps, the channels, currentTaskId, currentEventSource, the
\* status bar, the cancel button, the container and the retry state are as
\* they were.
C23_RejectedChangesNothing ==
    [][(/\ \A p \in BagToSet(respondPending) :
             respondResponse(p, "rejected") =>
                 /\ modals' # <<>>
                 /\ modals'[1].footer = "Error: Failed to send response"
                 /\ UNCHANGED <<steps, channels, currentTaskId,
                                currentEventSource, statusBar, cancelBtn,
                                container, retryCount, timers, polls>>
        /\ \A t \in Tasks :
             cancelTaskResponse(t, "rejected") =>
                 /\ alertMsg' = "Task cancellation error"
                 /\ UNCHANGED <<steps, channels, currentTaskId,
                                currentEventSource, statusBar, cancelBtn,
                                container, retryCount, timers, polls,
                                serverStatus, modals>>)]_vars

\* ------------------------------------------- properties of superseded sessions
\* C24: when createTask starts a new session, every earlier session is
\* unsubscribed: each of its channels is closed, the heartbeat interval of
\* each is cleared and no retry timer of it is pending.
C24_PreviousSessionUnsubscribed ==
    [][(createPending' > createPending =>
            /\ \A c \in Chans :
                 /\ channels'[c].readyState = CLOSED
                 /\ ~channels'[c].heartbeat
            /\ \A t \in Tasks : timers'[t] = 0)]_vars

\* C25: createTask leaves no channel open when it submits the prompt; a
\* reply with a task id opens exactly one channel, for that id; a failed
\* submission renders the error in the container, hides the cancel button
\* and opens no channel.
C25_StartClosesAndOpensOne ==
    [][(/\ createPending' > createPending =>
              \A c \in Chans : channels'[c].readyState = CLOSED
        /\ (createPending' < createPending /\ serverStatus' # serverStatus) =>
              /\ Len(channels') = Len(channels) + 1
              /\ channels'[Len(channels')] = NewChannel(Len(serverStatus'))
              /\ \A c \in Chans : channels'[c] = channels[c]
        /\ (createPending' < createPending /\ serverStatus' = serverStatus) =>
              /\ container' = <<Item("create-error", 0, 0)>>
              /\ ~cancelBtn'
              /\ channels' = channels)]_vars

\* ------------------------------------------------ properties of the narrative
\* C26: a frame whose event name has no listener is rendered as one more
\* step, labelled with the fallback label Info.
C26_UnknownFrameRendered ==
    [][(\A c \in Chans, name \in UnknownNames :
            unknownFrame(c, name) =>
                /\ Len(steps') = Len(steps) + 1
                /\ getEventLabel(steps'[Len(steps')].type) = "Info")]_vars

\* C27: an ask_human frame that carries a request id leaves its channel open
\* and never closed, leaves retryCount, currentTaskId and currentEventSource
\* as they were and appends exactly one waiting Step; a log frame that
\* arrives while a question is unanswered is appended after it.
C27_AskHumanKeepsStream ==
    [][(\A c \in Chans :
          /\ \A rid \in RequestIds :
                askHumanFrame(c, AskPayload("object", rid)) =>
                    /\ channels'[c].readyState = OPEN
                    /\ channels'[c].closeCalls = channels[c].closeCalls
                    /\ UNCHANGED <<retryCount, currentTaskId,
                                   currentEventSource, timers, polls>>
                    /\ Len(steps') = Len(steps) + 1
                    /\ steps'[Len(steps')] = WaitingStep(channels[c].task, rid)
                    /\ \A i \in 1..Len(steps) : steps'[i] = steps[i]
          /\ (handleEvent(c, "log", "ok") /\ \E i \in 1..Len(steps) : IsWaiting(steps[i])) =>
                    /\ steps' = Append(steps, Step("log", channels[c].task))
                    /\ channels'[c].readyState = OPEN)]_vars

\* C27 witness: a log Step was rendered after a waiting Step, on the channel
\* that delivered the question, while the prompt is open and unanswered.
C27_FrameAfterQuestion ==
    /\ Len(steps) = 2
    /\ IsWaiting(steps[1])
    /\ steps[2].type = "log"
    /\ Len(channels) = 1
    /\ channels[1].readyState = OPEN
    /\ Len(modals) = 1 /\ modals[1].buttons
    /\ respondPending = EmptyBag
    /\ budget.posts = MaxPosts

\* the completed / error / cancelled blocks of task t in the container
TerminalNotices(t) ==
    Cardinality({i \in 1..Len(container) :
                    /\ container[i].task = t
                    /\ container[i].kind \in {"complete", "error", "cancelled"}})

\* C28: the container never holds two terminal notices of a session, and a
\* session that has ended in a terminal state holds exactly one.
C28_OneTerminalNotice ==
    \A t \in Tasks :
        /\ TerminalNotices(t) <= 1
        /\ ClosedTerminal(t) => TerminalNotices(t) = 1

\* s is an initial part of t
IsPrefix(s, t) == Len(s) <= Len(t) /\ \A i \in 1..Len(s) : t[i] = s[i]

\* C29: within a session the rendered steps are append-only: whatever step
\* is taken other than the submission of a new prompt and its reply, the
\* steps rendered before it are still rendered after it, in the same order.
C29_StepsAppendOnly ==
    [][(createPending' = createPending => IsPrefix(steps, steps'))]_vars

\* C30: a heartbeat tick is rendered only for a channel that is not closed
\* and on which no terminal frame has been handled.
C30_TickOnlyWhileWaiting ==
    [][(\A c \in Chans :
            HeartbeatTick(c) =>
                /\ channels[c].readyState # CLOSED
                /\ channels[c].terminal = "none")]_vars

C32_TerminalStatusSticky ==
    [][(statusBar \in TerminalTexts =>
            /\ statusBar' \in TerminalTexts
            /\ ~cancelBtn')]_vars

AfterLast(s, sep) ==
    LET k == CHOOSE k \in 0..Len(s) :
                 /\ \A i \in (k + 1)..Len(s) : s[i] # sep
                 /\ k = 0 \/ s[k] = sep
                 /\ \A m \in 0..Len(s) :
                        ((\A i \in (m + 1)..Len(s) : s[i] # sep)
                            /\ (m = 0 \/ s[m] = sep)) => m <= k
    IN SubSeq(s, k + 1, Len(s))

\* the extension of a file name: what follows its last ".", none without one
ExtensionOf(name) ==
    IF \E i \in 1..Len(name) : name[i] = "." THEN AfterLast(name, ".") ELSE <<>>

\* the interaction of each lower-cased extension
ExpectedInteraction(ext) ==
    CASE ext \in {<<"jpg">>, <<"png">>} -> "image-preview"
      [] ext = <<"mp3">> -> "audio-player"
      [] ext = <<"py">> -> "code-file"
      [] OTHER -> "download"

\* the text has the pattern followed by a path
SavedPattern(content) ==
    \E i \in 1..(Len(content) - 1) : content[i] = "Content successfully saved to "

\* C34: a rendered act step whose text has the pattern offers the
\* interaction of the lower-cased extension of the last segment of the path;
\* every other step offers none; every step displays its text unchanged.
C34_InteractionByExtension ==
    \A i \in 1..Len(steps) :
        LET st == steps[i]
            path == Trim(SubSeq(st.content,
                                IndexOf(st.content, "Content successfully saved to ") + 1,
                                Len(st.content)))
            ext == ExtensionOf(AfterLast(path, "/"))
        IN /\ st.interaction =
                  IF st.type = "act" /\ SavedPattern(st.content)
                  THEN ExpectedInteraction(
                          [n \in 1..Len(ext) |-> IF ext[n] = "JPG" THEN "jpg" ELSE ext[n]])
                  ELSE "none"
           /\ st.shown = st.content

\* --------------------------------------------- properties of the prompt surface
\* C35: the element the delayed dismissal removes is a prompt that showed
\* the confirmation of its answer, or the prompt of a request id whose Step
\* shows an answer; the prompt of a question that has no answer yet is
\* removed only by the frame of a newer question.
C35_DismissalRemovesAnswered ==
    [][(\A n \in removeTimers :
          ModalRemoved(n) =>
              \A m \in 1..Len(modals) :
                  modals[m].n = n =>
                      \/ modals[m].footer \in {"Response sent successfully",
                                               "Question skipped"}
                      \/ \E i \in 1..Len(steps) :
                            /\ steps[i].type = "ask_human"
                            /\ steps[i].rid = modals[m].requestId
                            /\ ~IsWaiting(steps[i]))]_vars

\* the respond requests in flight that carry request id rid
PostsFor(rid, posts) ==
    BagCardinality([p \in {q \in BagToSet(posts) : q.request_id = rid} |-> posts[p]])

\* C36: a respond request for a request id is sent only while the prompt of
\* that request id is in the document and has not shown the confirmation of
\* an answer: never after a newer question replaced it, never after its
\* answer succeeded.
C36_NoPostAfterAnswerOrReplace ==
    [][(\A rid \in RequestIds :
          PostsFor(rid, respondPending') > PostsFor(rid, respondPending) =>
              \E m \in 1..Len(modals) :
                  /\ modals[m].requestId = rid
                  /\ modals[m].footer \notin {"Response sent successfully",
                                              "Question skipped"})]_vars

\* ------------------------------------------------ properties of ended sessions
\* C37: whenever the session of the streamed task has ended in a terminal
\* state, currentTaskId is null (and cancelCurrentTask, which tests it,
\* alerts 'No active task to cancel' and sends nothing).
C37_EndedSessionHasNoTaskId ==
    \A t \in Tasks : ClosedTerminal(t) => currentTaskId = 0

\* C38: under the scheduling of SpecStops every session reaches a state with
\* no open channel and no pending retry timer, and stays in such states.
C38_SessionStops ==
    <>[](\A t \in Tasks : AllClosed(t) /\ timers[t] = 0)

\* C38 witness: a session that has stopped after using every retry: four
\* channels, all closed, nothing scheduled or in flight.
C38_StoppedAfterRetries ==
    \E t \in Tasks :
        /\ NumChans(t) = maxRetries + 1
        /\ AllClosed(t)
        /\ timers[t] = 0
        /\ polls = EmptyBag
        /\ createPending = 0

\* while a channel is open a transport error can still be delivered to it
ErrorsLeftWhileOpen == OpenChans # {} => budget.errors > 0

\* ------------------------------------------- properties of transport errors
\* C39: a transport-level error event renders nothing, leaves the cancel
\* button, currentTaskId, currentEventSource, the Steps and the status bar
\* as they were, and changes no retry state; all it does is clear the
\* heartbeat and, for a source the browser did not close, close it and send
\* the poll of the reconnection policy.
C39_TransportErrorNotTerminal ==
    [][(\A c \in Chans, fatal \in BOOLEAN :
          TransportError(c, fatal) =>
              /\ UNCHANGED <<container, steps, cancelBtn, statusBar,
                             currentTaskId, currentEventSource, retryCount,
                             timers>>
              /\ channels'[c].terminal = channels[c].terminal
              /\ channels'[c].readyState = CLOSED
              /\ ~channels'[c].heartbeat
              /\ polls' = IF fatal THEN polls
                          ELSE SendPoll(polls, channels[c].task, "onerror"))]_vars

\* C39 witness: after a transport error the poll of onerror is in flight
\* while the cancel button is shown, currentTaskId and currentEventSource
\* are set and no error block is rendered.
C39_AfterTransportError ==
    \E t \in Tasks :
        /\ OnErrorPollPending(t)
        /\ budget.errors = maxRetries
        /\ cancelBtn
        /\ currentTaskId = t
        /\ currentEventSource # 0
        /\ ~Rendered("error", t)

\* ------------------------------------------------ properties of the prompt input
\* C40: createTask with an empty or blank input only alerts: the channels,
\* currentTaskId, currentEventSource, the container and its Steps, the
\* requests in flight and everything else of the session are as they were.
C40_BlankPromptNoOp ==
    [][(\A value \in TypedTexts :
          (AllSpaces(value) /\ createTaskFromInput(value)) =>
              /\ alertMsg' = "Please enter a valid prompt"
              /\ UNCHANGED <<channels, currentTaskId, currentEventSource,
                             container, steps, createPending, polls,
                             cancelBtn, statusBar, retryCount, timers,
                             serverStatus, budget>>)]_vars

\* C40 witness: the alert of a refused prompt is shown while a channel is
\* open, a Step is rendered and no submission is in flight.
C40_RefusedWhileStreaming ==
    /\ alertMsg = "Please enter a valid prompt"
    /\ createPending = 0
    /\ currentEventSource # 0
    /\ channels[currentEventSource].readyState = OPEN
    /\ Len(steps) = 1
    /\ budget.tasks = MaxTasks - 1

====
